---- MODULE Spec2Model ----
(***************************************************************************)
(* A model of use-iframe (src/src/index.ts, lines 1-264): the envelope     *)
(* codec, the useIframe hook (handshake, gated outbound queue, routing)    *)
(* and useIframeSharedState, run by React's render / passive-effect cycle  *)
(* over window.postMessage.                                                *)
(*                                                                         *)
(* Text is a sequence of one-character strings, so JSON.stringify and      *)
(* JSON.parse are computed on characters.  A JavaScript value is a record  *)
(* tagged by its type t, with one more field for its content.              *)
(***************************************************************************)
EXTENDS Integers, Sequences, FiniteSets, TLC

(***************************************************************************)
(* JavaScript values                                                       *)
(***************************************************************************)
Undef == [t |-> "undef"]
JNull == [t |-> "null"]
JBool(b) == [t |-> "bool", b |-> b]
JNum(n) == [t |-> "num", n |-> n]
JStr(s) == [t |-> "str", s |-> s]
JArr(es) == [t |-> "arr", a |-> es]
\* an object is the sequence of its <<key, value>> members in insertion order
JObj(ms) == [t |-> "obj", o |-> ms]
\* a function
JFun == [t |-> "fun"]

\* obj[key]: the last member with that key, undefined when there is none
RECURSIVE GetFrom(_, _, _)
GetFrom(ms, key, i) ==
  IF i = 0 THEN Undef
  ELSE IF ms[i][1] = key THEN ms[i][2] ELSE GetFrom(ms, key, i - 1)

Get(x, key) == IF x.t = "obj" THEN GetFrom(x.o, key, Len(x.o)) ELSE Undef

HasOwn(x, key) == x.t = "obj" /\ \E i \in 1..Len(x.o) : x.o[i][1] = key

\* a === b; two distinct object references are never equal
StrictEq(a, b) ==
  /\ a.t = b.t
  /\ a.t \notin {"obj", "arr"}
  /\ a = b

\* ToBoolean
Truthy(x) ==
  CASE x.t = "undef" -> FALSE
    [] x.t = "null" -> FALSE
    [] x.t = "bool" -> x.b
    [] x.t = "num" -> x.n # 0
    [] x.t = "str" -> x.s # <<>>
    [] OTHER -> TRUE

(***************************************************************************)
(* Text                                                                    *)
(***************************************************************************)
Quote == "\""
Backslash == "\\"
DigitChars == <<"0", "1", "2", "3", "4", "5", "6", "7", "8", "9">>
DigitSet == {DigitChars[i] : i \in 1..10}
DigitVal(c) == (CHOOSE i \in 1..10 : DigitChars[i] = c) - 1

RECURSIVE NatText(_)
NatText(n) ==
  IF n < 10 THEN <<DigitChars[n + 1]>>
  ELSE NatText(n \div 10) \o <<DigitChars[(n % 10) + 1]>>

NumText(n) == IF n < 0 THEN <<"-">> \o NatText(0 - n) ELSE NatText(n)

\* the text of s[lo..hi] with each quote and backslash escaped (computed by
\* halving, so that a long text does not nest deeply)
RECURSIVE EscapeRange(_, _, _)
EscapeRange(s, lo, hi) ==
  IF lo > hi THEN <<>>
  ELSE IF lo = hi
    THEN (IF s[lo] \in {Quote, Backslash} THEN <<Backslash, s[lo]>> ELSE <<s[lo]>>)
  ELSE LET mid == (lo + hi) \div 2
       IN EscapeRange(s, lo, mid) \o EscapeRange(s, mid + 1, hi)

QuoteText(s) == <<Quote>> \o EscapeRange(s, 1, Len(s)) \o <<Quote>>

T_true == <<"t", "r", "u", "e">>
T_false == <<"f", "a", "l", "s", "e">>
T_null == <<"n", "u", "l", "l">>
T_undefined == <<"u", "n", "d", "e", "f", "i", "n", "e", "d">>
T_objectObject ==
  <<"[", "o", "b", "j", "e", "c", "t", " ", "O", "b", "j", "e", "c", "t", "]">>

(***************************************************************************)
(* JSON.stringify: the text of a value.  A member whose value is undefined *)
(* or a function is left out of an object; such an array element is        *)
(* written null.                                                           *)
(***************************************************************************)
RECURSIVE JsonText(_), MembersText(_, _, _), ElementsText(_, _)
JsonText(x) ==
  CASE x.t = "null" -> T_null
    [] x.t = "bool" -> IF x.b THEN T_true ELSE T_false
    [] x.t = "num" -> NumText(x.n)
    [] x.t = "str" -> QuoteText(x.s)
    [] x.t = "arr" -> <<"[">> \o ElementsText(x.a, 1) \o <<"]">>
    [] x.t = "obj" -> <<"{">> \o MembersText(x.o, 1, TRUE) \o <<"}">>
    [] OTHER -> T_null

MembersText(ms, i, first) ==
  IF i > Len(ms) THEN <<>>
  ELSE IF ms[i][2].t \in {"undef", "fun"} THEN MembersText(ms, i + 1, first)
  ELSE (IF first THEN <<>> ELSE <<",">>)
       \o QuoteText(ms[i][1]) \o <<":">> \o JsonText(ms[i][2])
       \o MembersText(ms, i + 1, FALSE)

ElementsText(es, i) ==
  IF i > Len(es) THEN <<>>
  ELSE (IF i = 1 THEN <<>> ELSE <<",">>) \o JsonText(es[i]) \o ElementsText(es, i + 1)

\* JSON.stringify(x): a string, or undefined for undefined and for a function
JSONstringify(x) ==
  IF x.t \in {"undef", "fun"} THEN Undef ELSE JStr(JsonText(x))

(***************************************************************************)
(* JSON.parse: recursive descent over the characters.  A result is         *)
(* [ok, val, pos]: pos is the index after the value; ok = FALSE is the     *)
(* SyntaxError.  (No white space: no text of the model holds any between   *)
(* tokens.)                                                                *)
(***************************************************************************)
ParseFail == [ok |-> FALSE, val |-> Undef, pos |-> 0]
ParseOk(x, p) == [ok |-> TRUE, val |-> x, pos |-> p]

HasAt(s, i, lit) ==
  /\ i + Len(lit) - 1 <= Len(s)
  /\ \A k \in 1..Len(lit) : s[i + k - 1] = lit[k]

\* the number of consecutive backslashes that end at s[p], none before s[i]
RECURSIVE BackslashRun(_, _, _)
BackslashRun(s, p, i) ==
  IF p < i \/ s[p] # Backslash THEN 0 ELSE 1 + BackslashRun(s, p - 1, i)

\* s[p] is a backslash that escapes the character after it
Escapes(s, p, i) == s[p] = Backslash /\ BackslashRun(s, p - 1, i) % 2 = 0

\* s[p] is a quote that no backslash escapes: it closes the literal
Closes(s, p, i) == s[p] = Quote /\ BackslashRun(s, p - 1, i) % 2 = 0

\* the first closing quote in s[lo..hi] of a literal that starts at s[i], or 0
RECURSIVE FirstClose(_, _, _, _)
FirstClose(s, lo, hi, i) ==
  IF lo > hi THEN 0
  ELSE IF lo = hi THEN (IF Closes(s, lo, i) THEN lo ELSE 0)
  ELSE LET mid == (lo + hi) \div 2
           left == FirstClose(s, lo, mid, i)
       IN IF left # 0 THEN left ELSE FirstClose(s, mid + 1, hi, i)

\* s[lo..hi] without its escaping backslashes
RECURSIVE Unescape(_, _, _, _)
Unescape(s, lo, hi, i) ==
  IF lo > hi THEN <<>>
  ELSE IF lo = hi THEN (IF Escapes(s, lo, i) THEN <<>> ELSE <<s[lo]>>)
  ELSE LET mid == (lo + hi) \div 2
       IN Unescape(s, lo, mid, i) \o Unescape(s, mid + 1, hi, i)

\* the characters of a string literal from s[i] on, the opening quote
\* consumed; the only escapes are of a quote and of a backslash
ParseChars(s, i) ==
  LET close == FirstClose(s, i, Len(s), i)
  IN IF close = 0 THEN ParseFail
     ELSE IF \E p \in i..(close - 1) :
                Escapes(s, p, i) /\ s[p + 1] \notin {Quote, Backslash}
       THEN ParseFail
     ELSE ParseOk(Unescape(s, i, close - 1, i), close + 1)

RECURSIVE ParseDigits(_, _, _)
ParseDigits(s, i, n) ==
  IF i <= Len(s) /\ s[i] \in DigitSet
    THEN ParseDigits(s, i + 1, 10 * n + DigitVal(s[i]))
    ELSE ParseOk(n, i)

\* -?(0|[1-9][0-9]*)
ParseNat(s, i) ==
  IF i > Len(s) \/ s[i] \notin DigitSet THEN ParseFail
  ELSE IF s[i] = "0" THEN ParseOk(0, i + 1)
  ELSE ParseDigits(s, i, 0)

RECURSIVE ParseValue(_, _), ParseMembers(_, _, _), ParseElements(_, _, _)
ParseValue(s, i) ==
  IF i > Len(s) THEN ParseFail
  ELSE CASE s[i] = "{" ->
              IF i + 1 <= Len(s) /\ s[i + 1] = "}"
                THEN ParseOk(JObj(<<>>), i + 2)
                ELSE ParseMembers(s, i + 1, <<>>)
         [] s[i] = "[" ->
              IF i + 1 <= Len(s) /\ s[i + 1] = "]"
                THEN ParseOk(JArr(<<>>), i + 2)
                ELSE ParseElements(s, i + 1, <<>>)
         [] s[i] = Quote ->
              LET r == ParseChars(s, i + 1)
              IN IF r.ok THEN ParseOk(JStr(r.val), r.pos) ELSE ParseFail
         [] s[i] = "-" ->
              LET r == ParseNat(s, i + 1)
              IN IF r.ok THEN ParseOk(JNum(0 - r.val), r.pos) ELSE ParseFail
         [] s[i] \in DigitSet ->
              LET r == ParseNat(s, i)
              IN IF r.ok THEN ParseOk(JNum(r.val), r.pos) ELSE ParseFail
         [] s[i] = "t" ->
              IF HasAt(s, i, T_true) THEN ParseOk(JBool(TRUE), i + 4) ELSE ParseFail
         [] s[i] = "f" ->
              IF HasAt(s, i, T_false) THEN ParseOk(JBool(FALSE), i + 5) ELSE ParseFail
         [] s[i] = "n" ->
              IF HasAt(s, i, T_null) THEN ParseOk(JNull, i + 4) ELSE ParseFail
         [] OTHER -> ParseFail

\* "key":value ( , "key":value )* }  from s[i] on
ParseMembers(s, i, acc) ==
  IF i > Len(s) \/ s[i] # Quote THEN ParseFail
  ELSE LET k == ParseChars(s, i + 1)
       IN IF ~k.ok \/ k.pos > Len(s) \/ s[k.pos] # ":" THEN ParseFail
          ELSE LET x == ParseValue(s, k.pos + 1)
               IN IF ~x.ok \/ x.pos > Len(s) THEN ParseFail
                  ELSE IF s[x.pos] = ","
                    THEN ParseMembers(s, x.pos + 1, Append(acc, <<k.val, x.val>>))
                  ELSE IF s[x.pos] = "}"
                    THEN ParseOk(JObj(Append(acc, <<k.val, x.val>>)), x.pos + 1)
                  ELSE ParseFail

\* value ( , value )* ]  from s[i] on
ParseElements(s, i, acc) ==
  LET x == ParseValue(s, i)
  IN IF ~x.ok \/ x.pos > Len(s) THEN ParseFail
     ELSE IF s[x.pos] = ","
       THEN ParseElements(s, x.pos + 1, Append(acc, x.val))
     ELSE IF s[x.pos] = "]"
       THEN ParseOk(JArr(Append(acc, x.val)), x.pos + 1)
     ELSE ParseFail

\* ToString(x), which JSON.parse applies to an argument that is not a string
RECURSIVE ToStringJS(_), JoinText(_, _)
ToStringJS(x) ==
  CASE x.t = "str" -> x.s
    [] x.t = "undef" -> T_undefined
    [] x.t = "null" -> T_null
    [] x.t = "bool" -> IF x.b THEN T_true ELSE T_false
    [] x.t = "num" -> NumText(x.n)
    [] x.t = "arr" -> JoinText(x.a, 1)
    [] OTHER -> T_objectObject

JoinText(es, i) ==
  IF i > Len(es) THEN <<>>
  ELSE (IF i = 1 THEN <<>> ELSE <<",">>)
       \o (IF es[i].t \in {"undef", "null"} THEN <<>> ELSE ToStringJS(es[i]))
       \o JoinText(es, i + 1)

\* JSON.parse(x): [ok, val]; ok = FALSE when it throws
JSONparse(x) ==
  LET s == ToStringJS(x)
      r == ParseValue(s, 1)
  IN IF r.ok /\ r.pos = Len(s) + 1
       THEN [ok |-> TRUE, val |-> r.val]
       ELSE [ok |-> FALSE, val |-> Undef]

(***************************************************************************)
(* The envelope codec                                                      *)
(***************************************************************************)
packetId ==
  <<"_", "_", "f", "r", "o", "m", "U", "s", "e", "I", "f", "r", "a", "m", "e",
    "H", "o", "o", "k">>
K_fromId == <<"f", "r", "o", "m", "I", "d">>
K_payload == <<"p", "a", "y", "l", "o", "a", "d">>
K_private == <<"_", "_", "p", "r", "i", "v", "a", "t", "e">>
K_type == <<"t", "y", "p", "e">>
K_id == <<"i", "d">>
K_state == <<"s", "t", "a", "t", "e">>
K_time == <<"t", "i", "m", "e">>
K_count == <<"c", "o", "u", "n", "t">>
T_mounted == <<"m", "o", "u", "n", "t", "e", "d">>
T_setState ==
  <<"_", "_", "p", "r", "i", "v", "a", "t", "e", "_", "s", "e", "t", "-", "s",
    "t", "a", "t", "e">>
T_ping == <<"p", "i", "n", "g">>
T_pong == <<"p", "o", "n", "g">>

\* encodeMessage with the message put in the envelope as it is, not as text
encodeMessage_plain(message, fromId) ==
  JsonText(JObj(<< <<K_fromId, fromId>>,
                   <<K_payload, message>>,
                   <<packetId, JBool(TRUE)>> >>))

\* encodeMessage(message, fromId): the wire text
encodeMessage(message, fromId) ==
  JsonText(JObj(<< <<K_fromId, fromId>>,
                   <<K_payload, JSONstringify(message)>>,
                   <<packetId, JBool(TRUE)>> >>))

\* decodeMessage(raw): [ok, message, fromId, threw].  ok = FALSE is the
\* undefined result; threw would be an exception leaving the function, and
\* every throwing step (JSON.parse, `in` on a non-object) is inside the try.
Absent == [ok |-> FALSE, message |-> Undef, fromId |-> Undef, threw |-> FALSE]

\* decodeMessage without the test that the marker is exactly true
decodeMessage_anyMarker(raw) ==
  LET decoded == JSONparse(raw)
  IN IF ~decoded.ok THEN Absent
     ELSE IF decoded.val.t \notin {"obj", "arr"} THEN Absent
     ELSE IF HasOwn(decoded.val, packetId)
       THEN LET message == JSONparse(Get(decoded.val, K_payload))
            IN IF message.ok
                 THEN [ok |-> TRUE, message |-> message.val,
                       fromId |-> Get(decoded.val, K_fromId), threw |-> FALSE]
                 ELSE Absent
     ELSE Absent

decodeMessage(raw) ==
  LET decoded == JSONparse(raw)
  IN IF ~decoded.ok THEN Absent
     ELSE IF decoded.val.t \notin {"obj", "arr"} THEN Absent
     ELSE IF HasOwn(decoded.val, packetId)
             /\ StrictEq(Get(decoded.val, packetId), JBool(TRUE))
       THEN LET message == JSONparse(Get(decoded.val, K_payload))
            IN IF message.ok
                 THEN [ok |-> TRUE, message |-> message.val,
                       fromId |-> Get(decoded.val, K_fromId), threw |-> FALSE]
                 ELSE Absent
     ELSE Absent

\* isPrivateMessage(message), called on truthy values only
isPrivateMessage(message) ==
  /\ HasOwn(message, K_private)
  /\ StrictEq(Get(message, K_private), JBool(TRUE))

(***************************************************************************)
(* The documents.  One top document holds the frames "A" and "B" and the   *)
(* parent hooks PA and PB (each given a ref to its frame); the documents   *)
(* inside the frames hold the child hooks CA and CB (no ref).              *)
(***************************************************************************)
ParentLinks == {"PA", "PB"}
ChildLinks == {"CA", "CB"}
Links == ParentLinks \cup ChildLinks
Windows == {"top", "A", "B"}

\* the frame a parent's ref is bound to, or the frame a child's window is in
FrameOf(l) == IF l \in {"PA", "CA"} THEN "A" ELSE "B"
\* the window whose "message" events the hook listens to
WindowOf(l) == IF l \in ParentLinks THEN "top" ELSE FrameOf(l)
ParentOf(l) == IF FrameOf(l) = "A" THEN "PA" ELSE "PB"
\* the hook at the other end of the link
PeerOf(l) ==
  IF l \in ParentLinks THEN (IF FrameOf(l) = "A" THEN "CA" ELSE "CB")
  ELSE ParentOf(l)
\* the elements of the top document that embed the windows "A" and "B": the
\* id attribute (the empty text when there is none) and the tag
VARIABLE frames

Frames == {"A", "B"}

\* the id attribute of the frame element
IframeId(f) == frames[f].id

\* each frame an iframe element whose id is its name, in the document from
\* the first commit of the component that renders it (shown)
NamedFrames ==
  [f \in Frames |-> [id |-> <<f>>, tag |-> "iframe", shown |-> TRUE]]

isParent(l) == l \in ParentLinks
isChild(l) == l \in ChildLinks

Ping == JObj(<< <<K_type, JStr(T_ping)>> >>)
Pong == JObj(<< <<K_type, JStr(T_pong)>> >>)
Messages == {Ping, Pong}

\* { count: n }, the shared state of the README's example
Count(n) == JObj(<< <<K_count, JNum(n)>> >>)
initialState == Count(1)
States == {Count(2), Count(3)}

\* a message of each JSON kind, the falsy ones among them, and an object
\* that carries the key the hook marks its own messages with
Marked == JObj(<< <<K_type, JStr(T_ping)>>, <<K_private, JBool(TRUE)>> >>)
AnyMessages ==
  {Ping, Marked, JArr(<<JNum(1)>>), JStr(<<"a">>), JStr(<<>>), JNum(1), JNum(0),
   JBool(TRUE), JBool(FALSE), JNull}

MaxDispatch == 2
MaxChildDispatch == 1
MaxAnyDispatch == 2
MaxInject == 1
MaxSetState == 1
MaxMutations == 2
MaxClock == 3

VARIABLES
  links,    \* the hooks of this configuration
  hook,     \* which hook they are: "useIframe" or "useIframeSharedState"
  hooks,    \* the state of each hook and of the component that calls it
  inbox,    \* the message events queued at each window
  now,      \* the wall clock, new Date().getTime()
  injected, \* history: the number of foreign posts
  setCalls, \* history: the number of setState calls
  codec     \* a call of encodeMessage and of decodeMessage on its result

vars == <<links, hook, hooks, inbox, now, injected, setCalls, codec, frames>>

\* no codec call under way
NoCall == [pc |-> "none", message |-> Undef, fromId |-> Undef, raw |-> Undef,
           result |-> Undef]

NoClosure ==
  [first |-> FALSE, message |-> Undef, childId |-> Undef, iframeId |-> Undef,
   drain |-> FALSE, internalState |-> Undef, broadcast |-> FALSE]

\* A hook before the first render of its component.
\*   queue, childId, iframeId          useState of useIframe
\*   internalState, remoteState        useState of useIframeSharedState
\*   stateAge                          useRef of useIframeSharedState
\*   state                             the value the last render returned
\*   refCurrent                        ref.current is set
\*   mounted, effects, thrown          React: rendered once; passive effects
\*                                     of the last commit pending; render threw
\*   detached                          React: the component was unmounted
\*   queueChanged, stateChanged        setQueue / setInternalState since the
\*                                     last render (the effects' dependencies)
\*   closure                           what the last render captured
\*   savedHandler, listening           the iframeId savedHandler.current
\*                                     captured; the listener is registered
\*   posted, handled, submitted        history: window.postMessage calls,
\*                                     handleMessage calls, dispatch calls
\*                                     (with whether childId was undefined)
\*   heard                             history: the events not from the
\*                                     hook's peer that the listener ran on,
\*                                     as source and decoded message
NewHook ==
  [queue |-> <<>>, childId |-> Undef, iframeId |-> Undef,
   internalState |-> initialState, remoteState |-> initialState,
   stateAge |-> [local |-> JNum(0), remote |-> JNum(0)],
   state |-> initialState,
   refCurrent |-> FALSE,
   mounted |-> FALSE, effects |-> FALSE, thrown |-> FALSE, detached |-> FALSE,
   queueChanged |-> FALSE, stateChanged |-> FALSE,
   closure |-> NoClosure,
   savedHandler |-> Undef, listening |-> FALSE,
   posted |-> <<>>, handled |-> <<>>, submitted |-> <<>>, heard |-> {},
   expected |-> [value |-> Undef, at |-> 0]]

\* the hooks L of kind h, none rendered yet, in a document with the frames F
InitWith(L, h, F) ==
  /\ links = L
  /\ hook = h
  /\ hooks = [l \in Links |-> NewHook]
  /\ inbox = [w \in Windows |-> <<>>]
  /\ now = 1
  /\ injected = 0
  /\ setCalls = 0
  /\ codec = NoCall
  /\ frames = F

InitHooks(L, h) == InitWith(L, h, NamedFrames)

\* queue[0]
queueHead(q) == IF q = <<>> THEN Undef ELSE Head(q)
\* the queue effect without q.slice(1)
slice1_keep(q) == q

\* q.slice(1)
slice1(q) == IF q = <<>> THEN <<>> ELSE Tail(q)

\* isChildMounted, from the childId a render sees
isChildMounted(id) == id # Undef

\* a > b on two timestamps (false unless both are numbers)
Greater(a, b) == a.t = "num" /\ b.t = "num" /\ a.n > b.n

\* the returned value with >= in place of >
observedState_ge(age, internal, remote) ==
  IF age.local.n >= age.remote.n THEN internal ELSE remote

\* the value useIframeSharedState returns
observedState(age, internal, remote) ==
  IF Greater(age.local, age.remote) THEN internal ELSE remote

(***************************************************************************)
(* render(l, k): a render of the component and its commit, from the hook   *)
(* state k.  It captures the values the effects will use, sets the ref and *)
(* leaves the passive effects pending; it throws when the ref is set and   *)
(* iframeId is falsy (React then unmounts the component).                  *)
(***************************************************************************)
\* the render body without its test of the frame's id
configError_never(l, k) == FALSE

\* `if (isParent && ref?.current && !iframeId) throw ...`
configError(l, k) == isParent(l) /\ k.refCurrent /\ ~Truthy(k.iframeId)

\* unmounting without the removal of the listener
cleanup_keepListener(k) == [k EXCEPT !.effects = FALSE]

\* React unmounts the component: the effects' cleanups run (the listener is
\* removed) and no effect of the component runs again
cleanup(k) == [k EXCEPT !.effects = FALSE, !.listening = FALSE]

render(l, k) ==
  IF configError(l, k)
    THEN [cleanup(k) EXCEPT !.thrown = TRUE]
    ELSE LET age == IF k.mounted THEN k.stateAge
                    ELSE [local |-> JNum(now), remote |-> JNum(0)]
         IN [k EXCEPT
               !.mounted = TRUE,
               !.effects = TRUE,
               !.queueChanged = FALSE,
               !.stateChanged = FALSE,
               !.refCurrent = isParent(l) /\ frames[FrameOf(l)].shown,
               !.stateAge = age,
               !.state = observedState(age, k.internalState, k.remoteState),
               !.closure =
                 [first |-> ~k.mounted,
                  message |-> queueHead(k.queue),
                  childId |-> k.childId,
                  iframeId |-> k.iframeId,
                  drain |-> \/ ~k.mounted
                            \/ k.queueChanged
                            \/ k.childId # k.closure.childId,
                  internalState |-> k.internalState,
                  broadcast |-> ~k.mounted \/ k.stateChanged]]

\* { type: "mounted", id, __private: true }
MountedMessage(id) ==
  JObj(<< <<K_type, JStr(T_mounted)>>, <<K_id, id>>, <<K_private, JBool(TRUE)>> >>)

\* { type: "__private_set-state", state, time }
SetStateMessage(state, time) ==
  JObj(<< <<K_type, JStr(T_setState)>>, <<K_state, state>>, <<K_time, time>> >>)

\* postMessage(message): the window the packet is posted to, "none" when
\* neither branch posts
postTarget(l, k) ==
  IF isParent(l) THEN (IF k.refCurrent THEN FrameOf(l) ELSE "none")
  ELSE IF isChild(l) THEN "top" ELSE "none"

\* postMessage(message): the packet, from the childId the render captured
postData(l, c, message) ==
  IF isParent(l) THEN encodeMessage(message, Undef)
  ELSE encodeMessage(message, c.childId)

\* the queue effect's test without isChildMounted
drainReady_ungated(l, c) == (isParent(l) \/ isChild(l)) /\ Truthy(c.message)

\* the queue effect's test on the head it captured
drainReady(l, c) ==
  IF isParent(l) THEN Truthy(c.message) /\ isChildMounted(c.childId)
  ELSE isChild(l) /\ Truthy(c.message)

\* the mount effect on every run of the effects
announces_again(l, c) == isChild(l) /\ frames[FrameOf(l)].tag = "iframe"

\* the mount effect finds the iframe element whose contentWindow is this
\* window, on the first commit of a child
announces(l, c) == c.first /\ isChild(l) /\ frames[FrameOf(l)].tag = "iframe"

(***************************************************************************)
(* effects(l, k): the passive effects of the last commit, in the order the *)
(* hooks declare them: iframeId (first commit), the queue drain (when the  *)
(* queue or childId changed), savedHandler and the listener, the child's   *)
(* mount announcement (first commit), the shared state's broadcast (first  *)
(* commit and when internalState changed).  The result is the new hook     *)
(* state, whether a state update was made, and the packets posted.         *)
(***************************************************************************)
effects(l, k) ==
  LET c == k.closure
      id1 == IF c.first
               THEN (IF isParent(l) /\ k.refCurrent
                       THEN JStr(IframeId(FrameOf(l))) ELSE Undef)
               ELSE k.iframeId
      drains == c.drain /\ drainReady(l, c)
      q1 == IF drains THEN slice1(k.queue) ELSE k.queue
      to == IF drains THEN postTarget(l, k) ELSE "none"
      mounts == announces(l, c)
      q2 == IF mounts
              THEN Append(q1, MountedMessage(JStr(IframeId(FrameOf(l)))))
              ELSE q1
      cid == IF mounts THEN JStr(IframeId(FrameOf(l))) ELSE k.childId
      casts == hook = "useIframeSharedState" /\ c.broadcast
      q3 == IF casts
              THEN Append(q2, SetStateMessage(c.internalState, JNum(now)))
              ELSE q2
  IN [k |-> [k EXCEPT
               !.effects = FALSE,
               !.iframeId = id1,
               !.queue = q3,
               !.queueChanged = @ \/ drains \/ mounts \/ casts,
               !.childId = cid,
               !.stateAge = IF casts THEN [@ EXCEPT !.local = JNum(now)] ELSE @,
               !.savedHandler = c.iframeId,
               !.listening = TRUE,
               !.posted = IF to = "none" THEN @ ELSE Append(@, c.message)],
      updated |-> drains \/ mounts \/ casts \/ id1 # k.iframeId \/ cid # k.childId,
      out |-> IF to = "none" THEN <<>>
              ELSE <<[to |-> to, data |-> JStr(postData(l, c, c.message)),
                      source |-> l]>>]

\* React renders a state update before the task that made it ends, after
\* the passive effects still pending from the last commit.
settle(l, k) ==
  LET e == IF k.effects THEN effects(l, k)
           ELSE [k |-> k, updated |-> FALSE, out |-> <<>>]
  IN [k |-> render(l, e.k), out |-> e.out]

\* the packets of out that go to window w, as message events
eventsFor(w, out) ==
  IF out # <<>> /\ out[1].to = w
    THEN <<[data |-> out[1].data, source |-> out[1].source]>>
    ELSE <<>>

\* the inboxes after the packets of out are posted
deliverTo(box, out) == [w \in Windows |-> box[w] \o eventsFor(w, out)]

\* The component that calls the hook is rendered for the first time.  A
\* child's document exists once its frame element is rendered.
Mount(l) ==
  /\ l \in links
  /\ ~hooks[l].mounted
  /\ isChild(l) =>
       (ParentOf(l) \in links => hooks[ParentOf(l)].refCurrent)
  /\ hooks' = [hooks EXCEPT ![l] = render(l, @)]
  /\ UNCHANGED <<links, hook, inbox, now, injected, setCalls, codec, frames>>

\* The task that runs the passive effects of the last commit, and the
\* render of the updates they made.
Flush(l) ==
  /\ l \in links
  /\ hooks[l].effects
  /\ LET e == effects(l, hooks[l])
     IN /\ hooks' = [hooks EXCEPT
                       ![l] = IF e.updated THEN render(l, e.k) ELSE e.k]
        /\ inbox' = deliverTo(inbox, e.out)
  /\ UNCHANGED <<links, hook, now, injected, setCalls, codec, frames>>

\* the number of dispatch calls made so far
Submissions ==
  Len(hooks["PA"].submitted) + Len(hooks["PB"].submitted)
    + Len(hooks["CA"].submitted) + Len(hooks["CB"].submitted)

\* dispatch(message), any time after the hook has returned it
Dispatch(l, message) ==
  /\ l \in links
  /\ hook = "useIframe"
  /\ hooks[l].mounted
  /\ ~hooks[l].thrown
  /\ ~hooks[l].detached
  /\ LET s == settle(l, [hooks[l] EXCEPT
                           !.queue = Append(@, message),
                           !.queueChanged = TRUE,
                           !.submitted =
                             Append(@, [message |-> message,
                                        pending |-> hooks[l].childId = Undef])])
     IN /\ hooks' = [hooks EXCEPT ![l] = s.k]
        /\ inbox' = deliverTo(inbox, s.out)
  /\ UNCHANGED <<links, hook, now, injected, setCalls, codec, frames>>

\* The component of parent hook l renders again and this time returns the
\* frame element: React attaches it to ref.current when it commits.
Show(l) ==
  /\ l \in links
  /\ isParent(l)
  /\ hooks[l].mounted
  /\ ~hooks[l].thrown
  /\ ~hooks[l].detached
  /\ ~frames[FrameOf(l)].shown
  /\ frames' = [frames EXCEPT ![FrameOf(l)].shown = TRUE]
  /\ LET s == settle(l, hooks[l])
     IN /\ hooks' = [hooks EXCEPT
                       ![l] = [s.k EXCEPT !.refCurrent = ~s.k.thrown]]
        /\ inbox' = deliverTo(inbox, s.out)
  /\ UNCHANGED <<links, hook, now, injected, setCalls, codec>>

\* The component that calls the hook is unmounted.  React first runs the
\* passive effects still pending from the last commit.
Unmount(l) ==
  /\ l \in links
  /\ hooks[l].mounted
  /\ ~hooks[l].thrown
  /\ ~hooks[l].detached
  /\ LET e == IF hooks[l].effects THEN effects(l, hooks[l])
              ELSE [k |-> hooks[l], updated |-> FALSE, out |-> <<>>]
     IN /\ hooks' = [hooks EXCEPT ![l] = [cleanup(e.k) EXCEPT !.detached = TRUE]]
        /\ inbox' = deliverTo(inbox, e.out)
  /\ UNCHANGED <<links, hook, now, injected, setCalls, codec, frames>>

\* setState(value) of useIframeSharedState, with a value the caller made
SetState(l, value) ==
  /\ l \in links
  /\ hook = "useIframeSharedState"
  /\ hooks[l].mounted
  /\ ~hooks[l].thrown
  /\ ~hooks[l].detached
  /\ setCalls' = setCalls + 1
  /\ LET s == settle(l, [hooks[l] EXCEPT
                           !.internalState = value,
                           !.stateChanged = TRUE])
     IN /\ hooks' = [hooks EXCEPT ![l] = s.k]
        /\ inbox' = deliverTo(inbox, s.out)
  /\ UNCHANGED <<links, hook, now, injected, codec, frames>>

\* a millisecond passes
\* state => ({...state, count: state.count + 1})
Increase(state) == Count(Get(state, K_count).n + 1)

\* setState(updater) of useIframeSharedState, which is setInternalState:
\* React applies the updater to internalState.  expected keeps the updater's
\* result on the value the last render returned, and the number of handler
\* calls so far.
Update(l) ==
  /\ l \in links
  /\ hook = "useIframeSharedState"
  /\ hooks[l].mounted
  /\ ~hooks[l].thrown
  /\ ~hooks[l].detached
  /\ setCalls' = setCalls + 1
  /\ LET s == settle(l, [hooks[l] EXCEPT
                           !.internalState = Increase(@),
                           !.stateChanged = TRUE,
                           !.expected = [value |-> Increase(hooks[l].state),
                                         at |-> Len(hooks[l].handled)]])
     IN /\ hooks' = [hooks EXCEPT ![l] = s.k]
        /\ inbox' = deliverTo(inbox, s.out)
  /\ UNCHANGED <<links, hook, now, injected, codec, frames>>

Tick ==
  /\ now' = now + 1
  /\ UNCHANGED <<links, hook, hooks, inbox, injected, setCalls, codec, frames>>

(***************************************************************************)
(* eventListener(event) of hook l, as savedHandler.current holds it        *)
(***************************************************************************)
hears(l, w) == l \in links /\ WindowOf(l) = w /\ hooks[l].listening

\* `if (message)`: a decoded, truthy message
hasMessage(d) == d.ok /\ Truthy(d.message)

\* handlePrivateMessage without the comparison of message.id and iframeId
setsChildId_anyId(k, d) ==
  /\ hasMessage(d)
  /\ isPrivateMessage(d.message)
  /\ StrictEq(Get(d.message, K_type), JStr(T_mounted))

\* handlePrivateMessage reaches setChildId(message.id)
setsChildId(k, d) ==
  /\ hasMessage(d)
  /\ isPrivateMessage(d.message)
  /\ StrictEq(Get(d.message, K_type), JStr(T_mounted))
  /\ StrictEq(Get(d.message, K_id), k.savedHandler)

\* the listener without the comparison of iframeId and fromId
callsHandler_anySender(l, k, d) ==
  /\ hasMessage(d)
  /\ ~isPrivateMessage(d.message)
  /\ isParent(l) \/ isChild(l)

\* the listener without the isPrivateMessage branch
callsHandler_private(l, k, d) ==
  /\ hasMessage(d)
  /\ IF isParent(l) THEN StrictEq(k.savedHandler, d.fromId) ELSE isChild(l)

\* the listener reaches handleMessage(message, dispatch)
callsHandler(l, k, d) ==
  /\ hasMessage(d)
  /\ ~isPrivateMessage(d.message)
  /\ IF isParent(l) THEN StrictEq(k.savedHandler, d.fromId) ELSE isChild(l)

\* useIframeSharedState's handler with a comparison of message.time and the
\* stamp it holds
storesRemote_ifNewer(l, k, d) ==
  /\ hook = "useIframeSharedState"
  /\ callsHandler(l, k, d)
  /\ StrictEq(Get(d.message, K_type), JStr(T_setState))
  /\ Get(d.message, K_time).n > k.stateAge.remote.n

\* useIframeSharedState's handler stores the peer's state
storesRemote(l, k, d) ==
  /\ hook = "useIframeSharedState"
  /\ callsHandler(l, k, d)
  /\ StrictEq(Get(d.message, K_type), JStr(T_setState))

\* eventListener(event): the hook state after the listener's updates, and
\* whether React has a state update to render
eventListener(l, k, e, d) ==
  LET sets == setsChildId(k, d)
      calls == callsHandler(l, k, d)
      stores == storesRemote(l, k, d)
      cid == IF sets THEN Get(d.message, K_id) ELSE k.childId
  IN [k |-> [k EXCEPT
               !.childId = cid,
               !.heard = IF e.source = PeerOf(l) THEN @
                         ELSE @ \cup {[source |-> e.source,
                                        message |-> IF d.ok THEN d.message
                                                    ELSE Undef]},
               !.handled = IF calls
                             THEN Append(@, [message |-> d.message,
                                             source |-> e.source])
                             ELSE @,
               !.stateAge = IF stores
                              THEN [@ EXCEPT !.remote = Get(d.message, K_time)]
                              ELSE @,
               !.remoteState = IF stores THEN Get(d.message, K_state) ELSE @],
      updated |-> cid # k.childId \/ stores]

\* the hook l after its listener, if it is registered at window w, has run on
\* the event e, whose data decodes to d, and React has rendered its updates
listenerRun(l, w, e, d) ==
  IF ~hears(l, w) THEN [k |-> hooks[l], out |-> <<>>]
  ELSE LET r == eventListener(l, hooks[l], e, d)
       IN IF r.updated THEN settle(l, r.k) ELSE [k |-> r.k, out |-> <<>>]

\* One message event at window w: every listener registered there runs.
Deliver(w) ==
  /\ inbox[w] # <<>>
  /\ \E d \in {decodeMessage(Head(inbox[w]).data)} :
       \E all \in {[l \in Links |-> listenerRun(l, w, Head(inbox[w]), d)]} :
         /\ hooks' = [l \in Links |-> all[l].k]
         /\ inbox' = [x \in Windows |->
                        (IF x = w THEN Tail(inbox[x]) ELSE inbox[x])
                          \o eventsFor(x, all["PA"].out)
                          \o eventsFor(x, all["PB"].out)
                          \o eventsFor(x, all["CA"].out)
                          \o eventsFor(x, all["CB"].out)]
  /\ UNCHANGED <<links, hook, now, injected, setCalls, codec, frames>>

\* A post by some other document or script: any data, to a window.
Inject(w, data) ==
  /\ injected < MaxInject
  /\ injected' = injected + 1
  /\ inbox' = [inbox EXCEPT ![w] = Append(@, [data |-> data, source |-> "ext"])]
  /\ UNCHANGED <<links, hook, hooks, now, setCalls, codec, frames>>


(***************************************************************************)
(* A call of encodeMessage followed by decodeMessage on the text it made.  *)
(***************************************************************************)
Atoms ==
  {JNull, JBool(TRUE), JBool(FALSE), JNum(0), JNum(0 - 1), JNum(12), JStr(<<>>),
   JStr(<<"a">>), JStr(<<Quote>>), JStr(<<Backslash, "n">>)}

\* JSON-serialisable messages: atoms, arrays and objects of them, nested
\* once, and the hook's own message shapes
CodecMessages ==
  Atoms
    \cup {JArr(<<>>), JObj(<<>>), Ping, Marked,
          MountedMessage(JStr(<<"A">>)), SetStateMessage(Count(1), JNum(1))}
    \cup {JArr(<<a>>) : a \in Atoms}
    \cup {JArr(<<a, JArr(<<a>>)>>) : a \in Atoms}
    \cup {JObj(<< <<K_type, a>> >>) : a \in Atoms}
    \cup {JObj(<< <<K_state, JObj(<< <<K_id, a>> >>)>>, <<K_time, a>> >>) : a \in Atoms}

\* fromId: absent or a string
SenderIds == {Undef, JStr(<<"A">>), JStr(<<>>), JStr(<<"a", Quote>>)}

Encode ==
  /\ codec.pc = "called"
  /\ codec' = [codec EXCEPT
                 !.pc = "encoded",
                 !.raw = JStr(encodeMessage(codec.message, codec.fromId))]
  /\ UNCHANGED <<links, hook, hooks, inbox, now, injected, setCalls, frames>>

Decode ==
  /\ codec.pc = "encoded"
  /\ codec' = [codec EXCEPT !.pc = "decoded", !.result = decodeMessage(codec.raw)]
  /\ UNCHANGED <<links, hook, hooks, inbox, now, injected, setCalls, frames>>

(***************************************************************************)
(* One parent hook and the child hook in its frame, exchanging messages.   *)
(***************************************************************************)
Init == InitHooks({"PA", "CA"}, "useIframe")

Next ==
  \/ \E l \in Links : Mount(l)
  \/ \E l \in Links : Flush(l)
  \/ \E l \in Links, m \in Messages : Submissions < MaxDispatch /\ Dispatch(l, m)
  \/ \E w \in Windows : Deliver(w)

Spec == Init /\ [][Next]_vars

(***************************************************************************)
(* The same pair, the parent's caller dispatching messages of any JSON     *)
(* kind.                                                                   *)
(***************************************************************************)
InitAny == InitHooks({"PA", "CA"}, "useIframe")

NextAny ==
  \/ \E l \in Links : Mount(l)
  \/ \E l \in Links : Flush(l)
  \/ \E l \in ParentLinks, m \in AnyMessages :
       Submissions < MaxAnyDispatch /\ Dispatch(l, m)
  \/ \E w \in Windows : Deliver(w)

SpecAny == InitAny /\ [][NextAny]_vars

(***************************************************************************)
(* Two parent hooks in one document, each bound to its own frame, and the  *)
(* child hook inside each frame.                                           *)
(***************************************************************************)
InitMulti == InitHooks(Links, "useIframe")

NextMulti ==
  \/ \E l \in Links : Mount(l)
  \/ \E l \in Links : Flush(l)
  \/ \E l \in ChildLinks : Submissions < MaxChildDispatch /\ Dispatch(l, Ping)
  \/ \E w \in Windows : Deliver(w)

SpecMulti == InitMulti /\ [][NextMulti]_vars

(***************************************************************************)
(* One parent and its child sharing a state with useIframeSharedState.     *)
(***************************************************************************)
InitShared == InitHooks({"PA", "CA"}, "useIframeSharedState")

NextShared ==
  \/ \E l \in Links : Mount(l)
  \/ \E l \in Links : Flush(l)
  \/ \E l \in Links, v \in States : setCalls < MaxSetState /\ SetState(l, v)
  \/ now < MaxClock /\ Tick
  \/ \E w \in Windows : Deliver(w)

SpecShared == InitShared /\ [][NextShared]_vars

(***************************************************************************)
(* A parent sharing a state whose caller mutates it several times, its     *)
(* frame not loaded yet.                                                   *)
(***************************************************************************)
\* messages JSON.stringify has no text for
Unserializable == {JFun}

\* a parent and its child; the parent's caller also submits functions
InitRaw == InitHooks({"PA", "CA"}, "useIframe")

NextRaw ==
  \/ \E l \in Links : Mount(l)
  \/ \E l \in Links : Flush(l)
  \/ \E l \in ParentLinks, m \in Unserializable \cup {Ping} :
       Submissions < MaxAnyDispatch /\ Dispatch(l, m)
  \/ \E w \in Windows : Deliver(w)

SpecRaw == InitRaw /\ [][NextRaw]_vars

\* a parent bound to an iframe element that has no id, and the child in it
UnnamedFrames == [NamedFrames EXCEPT !["A"].id = <<>>]

InitUnnamed == InitWith({"PA", "CA"}, "useIframe", UnnamedFrames)

NextUnnamed ==
  \/ \E l \in Links : Mount(l)
  \/ \E l \in Links : Flush(l)
  \/ \E l \in Links, m \in Messages :
       Submissions < MaxDispatch /\ Dispatch(l, m)
  \/ \E w \in Windows : Deliver(w)

SpecUnnamed == InitUnnamed /\ [][NextUnnamed]_vars

\* the child's window is embedded by an object element: no iframe element of
\* the parent document has it as contentWindow
ObjectFrames == [NamedFrames EXCEPT !["A"].tag = "object"]

InitOrphan == InitWith({"PA", "CA"}, "useIframe", ObjectFrames)

NextOrphan ==
  \/ \E l \in Links : Mount(l)
  \/ \E l \in Links : Flush(l)
  \/ \E l \in Links, m \in Messages :
       Submissions < MaxDispatch /\ Dispatch(l, m)
  \/ \E w \in Windows : Deliver(w)

SpecOrphan == InitOrphan /\ [][NextOrphan]_vars

\* a parent and its child; the component of either hook may be unmounted
InitDetach == InitHooks({"PA", "CA"}, "useIframe")

NextDetach ==
  \/ \E l \in Links : Mount(l)
  \/ \E l \in Links : Flush(l)
  \/ \E l \in ParentLinks, m \in Messages :
       Len(hooks[l].submitted) < MaxDispatch /\ Dispatch(l, m)
  \/ \E l \in ChildLinks :
       Len(hooks[l].submitted) < MaxChildDispatch /\ Dispatch(l, Ping)
  \/ \E l \in Links : Unmount(l)
  \/ \E w \in Windows : Deliver(w)

SpecDetach == InitDetach /\ [][NextDetach]_vars

\* packets of another script that follow the envelope: a mounted message
\* with the frame's id, with another id, and without id
MountedIds == {JStr(<<"A">>), JStr(<<"B">>), Undef}
ForgedPackets == {JStr(encodeMessage(MountedMessage(id), Undef)) : id \in MountedIds}

InitForged == InitHooks({"PA", "CA"}, "useIframe")

NextForged ==
  \/ \E l \in Links : Mount(l)
  \/ \E l \in Links : Flush(l)
  \/ \E l \in Links, m \in Messages :
       Submissions < MaxDispatch /\ Dispatch(l, m)
  \/ \E l \in Links, raw \in ForgedPackets :
       l \in links /\ Inject(WindowOf(l), raw)
  \/ \E w \in Windows : Deliver(w)

SpecForged == InitForged /\ [][NextForged]_vars

\* the parent's component returns the iframe element, which has an id, only
\* from a later render on
LateFrames == [NamedFrames EXCEPT !["A"].shown = FALSE]

InitLate == InitWith({"PA", "CA"}, "useIframe", LateFrames)

NextLate ==
  \/ \E l \in Links : Mount(l)
  \/ \E l \in Links : Flush(l)
  \/ \E l \in Links, m \in Messages :
       Submissions < MaxDispatch /\ Dispatch(l, m)
  \/ \E l \in ParentLinks : Show(l)
  \/ \E w \in Windows : Deliver(w)

SpecLate == InitLate /\ [][NextLate]_vars

\* a parent and its child share state; the callers use functional updates
InitUpdate == InitHooks({"PA", "CA"}, "useIframeSharedState")

NextUpdate ==
  \/ \E l \in Links : Mount(l)
  \/ \E l \in Links : Flush(l)
  \/ \E l \in Links : setCalls < MaxMutations /\ Update(l)
  \/ now < MaxClock /\ Tick
  \/ \E w \in Windows : Deliver(w)

SpecUpdate == InitUpdate /\ [][NextUpdate]_vars

InitStamps == InitHooks({"PA"}, "useIframeSharedState")

NextStamps ==
  \/ \E l \in Links : Mount(l)
  \/ \E l \in Links : Flush(l)
  \/ \E l \in Links, v \in States : setCalls < MaxMutations /\ SetState(l, v)
  \/ now < MaxClock /\ Tick

SpecStamps == InitStamps /\ [][NextStamps]_vars

(***************************************************************************)
(* The pair, with other scripts posting data that is not a packet of the   *)
(* hook to the windows the hooks listen to.                                *)
(***************************************************************************)
\* the text of an envelope with the given marker and payload members
Envelope(marker, payload) ==
  JStr(JsonText(JObj(<< <<K_payload, payload>>, <<packetId, marker>> >>)))

NotPackets ==
  { \* strings that are not JSON
    JStr(<<>>), JStr(<<"h", "i">>), JStr(<<"{">>), JStr(T_undefined),
    \* JSON that is not an object
    JStr(T_null), JStr(T_true), JStr(<<"1">>), JStr(<<Quote, "a", Quote>>),
    JStr(<<"[", "]">>),
    \* objects without the marker key
    JStr(<<"{", "}">>),
    JStr(JsonText(JObj(<< <<K_payload, JSONstringify(Ping)>> >>))),
    \* objects whose marker is not exactly true
    Envelope(JBool(FALSE), JSONstringify(Ping)),
    Envelope(JNum(1), JSONstringify(Ping)),
    Envelope(JStr(T_true), JSONstringify(Ping)),
    Envelope(JNull, JSONstringify(MountedMessage(JStr(<<"A">>)))),
    \* marked objects whose payload does not parse
    Envelope(JBool(TRUE), JStr(<<"{">>)),
    Envelope(JBool(TRUE), Undef),
    \* data that is not a string
    Undef, JNum(1), JNull,
    JObj(<< <<K_payload, JSONstringify(Ping)>>, <<packetId, JBool(TRUE)>> >>) }

InitForeign == InitHooks({"PA", "CA"}, "useIframe")

NextForeign ==
  \/ \E l \in Links : Mount(l)
  \/ \E l \in Links : Flush(l)
  \/ \E l \in Links, raw \in NotPackets : l \in links /\ Inject(WindowOf(l), raw)
  \/ \E w \in Windows : Deliver(w)

SpecForeign == InitForeign /\ [][NextForeign]_vars

(***************************************************************************)
(* The codec alone, on every message and sender id of the bounded sets.    *)
(***************************************************************************)
InitCodec ==
  /\ links = {}
  /\ hook = "none"
  /\ hooks = [l \in Links |-> NewHook]
  /\ inbox = [w \in Windows |-> <<>>]
  /\ now = 1
  /\ injected = 0
  /\ setCalls = 0
  /\ frames = NamedFrames
  /\ codec \in {[pc |-> "called", message |-> m, fromId |-> s, raw |-> Undef,
                 result |-> Undef] : m \in CodecMessages, s \in SenderIds}

NextCodec ==
  \/ Encode
  \/ Decode

SpecCodec == InitCodec /\ [][NextCodec]_vars

(***************************************************************************)
(* Properties                                                              *)
(***************************************************************************)
\* the messages of a history of handleMessage calls or of dispatch calls
RECURSIVE messagesOf(_)
messagesOf(log) ==
  IF log = <<>> THEN <<>> ELSE <<Head(log).message>> \o messagesOf(Tail(log))

\* the dispatch calls of a history made while childId was undefined
pendingOf(log) == SelectSeq(log, LAMBDA x : x.pending)

\* every live hook has run its effects and every posted packet is delivered
Quiescent ==
  /\ \A l \in links : hooks[l].mounted /\ ~hooks[l].thrown /\ ~hooks[l].effects
  /\ \A w \in Windows : inbox[w] = <<>>

\* the parent hook PA has set childId
Established == hooks["PA"].childId # Undef

\* C1: once the parent link is Established and every packet is delivered, the
\* messages dispatched on it while it was Pending have reached the child's
\* handler, in submission order, each once, ahead of any later message.
C1_PendingOrder ==
  (Quiescent /\ Established)
    => LET want == messagesOf(pendingOf(hooks["PA"].submitted))
           got == messagesOf(hooks["CA"].handled)
       IN /\ Len(got) >= Len(want)
          /\ SubSeq(got, 1, Len(want)) = want
          /\ Len(got) <= Len(hooks["PA"].submitted)

\* C2: a parent hook whose childId is undefined (Pending) has posted nothing
\* to its frame, whatever its queue holds.
C2_PendingPostsNothing ==
  \A l \in ParentLinks \cap links :
    hooks[l].childId = Undef => hooks[l].posted = <<>>

\* a Pending parent whose queue effect has run on a queue that is not empty
C2_Witness ==
  /\ hooks["PA"].childId = Undef
  /\ hooks["PA"].queue # <<>>
  /\ hooks["PA"].closure.message # Undef
  /\ hooks["PA"].listening
  /\ ~hooks["PA"].effects

\* C3: with parent hooks bound to the frames "A" and "B", a message of the
\* child in frame "B" never reaches the handler of the hook bound to "A"
\* (nor one of the child in "A" the handler of the hook bound to "B").
C3_Isolation ==
  /\ \A i \in 1..Len(hooks["PA"].handled) : hooks["PA"].handled[i].source # "CB"
  /\ \A i \in 1..Len(hooks["PB"].handled) : hooks["PB"].handled[i].source # "CA"

\* the listener of the hook bound to "A" ran, with its own id known, on a
\* message the child in "B" sent, and the hook bound to "B" handled it
C3_Witness ==
  /\ [source |-> "CB", message |-> Ping] \in hooks["PA"].heard
  /\ hooks["PA"].savedHandler = JStr(IframeId("A"))
  /\ hooks["PA"].childId # Undef
  /\ \E i \in 1..Len(hooks["PB"].handled) : hooks["PB"].handled[i].source = "CB"

\* C4: the value a shared-state hook returned is internalState when
\* stateAge.local > stateAge.remote and remoteState otherwise.
C4_DisplayRule ==
  \A l \in links :
    (hooks[l].mounted /\ ~hooks[l].thrown)
      => hooks[l].state =
           IF hooks[l].stateAge.local.n > hooks[l].stateAge.remote.n
             THEN hooks[l].internalState
             ELSE hooks[l].remoteState

\* a hook that mutated its state after it received the peer's, and returns
\* its own value, which differs from the peer's
C4_Witness ==
  \E l \in links :
    /\ hooks[l].stateAge.remote.n > 0
    /\ hooks[l].stateAge.local.n > hooks[l].stateAge.remote.n
    /\ hooks[l].internalState # hooks[l].remoteState
    /\ hooks[l].state = hooks[l].internalState

\* the frame id a parent hook's ref is bound to
expectedId(l) == JStr(IframeId(FrameOf(l)))

\* the event at the head of window w is a `mounted` private message
headIsMounted(w) ==
  /\ inbox[w] # <<>>
  /\ LET d == decodeMessage(Head(inbox[w]).data)
     IN /\ hasMessage(d)
        /\ isPrivateMessage(d.message)
        /\ Get(d.message, K_type) = JStr(T_mounted)

\* the step takes the event at the head of window w to the listeners: no
\* other step removes an event, and no listener posts to its own window
Processes(w) == inbox[w] # <<>> /\ inbox'[w] = Tail(inbox[w])

\* the id of the `mounted` message at the head of window w
headId(w) == Get(decodeMessage(Head(inbox[w]).data).message, K_id)

\* C5: a parent hook's childId goes from undefined to defined only in the
\* step that processes a `mounted` message whose id is the id of the hook's
\* frame; the step that processes a `mounted` message with another id leaves
\* the hook's childId and queue as they were.
C5_Handshake ==
  [][\A l \in ParentLinks \cap links :
       /\ (hooks[l].childId = Undef /\ hooks'[l].childId # Undef)
            => /\ Processes("top")
               /\ headIsMounted("top")
               /\ headId("top") = expectedId(l)
       /\ (Processes("top") /\ headIsMounted("top") /\ headId("top") # expectedId(l))
            => /\ hooks'[l].childId = hooks[l].childId
               /\ hooks'[l].queue = hooks[l].queue]_vars

\* the hook bound to "A", its own id known, is still Pending after its
\* listener ran on the `mounted` message of the child in "B"
C5_Witness ==
  /\ [source |-> "CB", message |-> MountedMessage(JStr(IframeId("B")))]
       \in hooks["PA"].heard
  /\ hooks["PA"].savedHandler = JStr(IframeId("A"))
  /\ hooks["PA"].childId = Undef
  /\ hooks["PB"].childId = JStr(IframeId("B"))

\* C6: the first packet a child hook posts to its parent is its `mounted`
\* announcement, whenever its caller dispatches.
C6_MountedFirst ==
  \A l \in ChildLinks \cap links :
    hooks[l].posted # <<>>
      => hooks[l].posted[1] = MountedMessage(JStr(IframeId(FrameOf(l))))

\* C7: once the handshake has completed, both queues are empty and every
\* packet is delivered, the parent and the child return the same value.
C7_InSync ==
  (/\ Quiescent
   /\ Established
   /\ hooks["PA"].queue = <<>>
   /\ hooks["CA"].queue = <<>>)
    => hooks["PA"].state = hooks["CA"].state

\* C8: once every packet is delivered, every message dispatched on an
\* Established parent link has been passed to the child's handler.
C8_AnyMessage ==
  Quiescent
    => \A i \in 1..Len(hooks["PA"].submitted) :
         ~hooks["PA"].submitted[i].pending
           => \E j \in 1..Len(hooks["CA"].handled) :
                hooks["CA"].handled[j].message = hooks["PA"].submitted[i].message

\* C9: decodeMessage(encodeMessage(m, s)) is the pair (m, s).
C9_RoundTrip ==
  codec.pc = "decoded"
    => /\ codec.result.ok
       /\ ~codec.result.threw
       /\ codec.result.message = codec.message
       /\ codec.result.fromId = codec.fromId

\* a nested message with text that needs escaping, sent with a sender id,
\* has gone through both functions
C9_Witness ==
  /\ codec.pc = "decoded"
  /\ codec.message = JArr(<<JStr(<<Quote>>), JArr(<<JStr(<<Quote>>)>>)>>)
  /\ codec.fromId = JStr(<<"a", Quote>>)
  /\ codec.result.ok

\* C10: on data that is not a packet of the hook, decodeMessage returns
\* undefined without throwing, and the step that processes the event leaves
\* every hook as it was and calls no handler.
C10_NotPacketIgnored ==
  [][\A w \in Windows :
       (Processes(w) /\ Head(inbox[w]).data \in NotPackets)
         => /\ decodeMessage(Head(inbox[w]).data) = Absent
            /\ \A l \in Links :
                 [hooks'[l] EXCEPT !.heard = hooks[l].heard] = hooks[l]]_vars

\* the listener of a hook (of an Established one, if it is a parent) ran on
\* data that is not a packet
C10_Witness ==
  \E l \in links :
    /\ hooks[l].listening
    /\ isParent(l) => hooks[l].childId # Undef
    /\ \E h \in hooks[l].heard : h.source = "ext" /\ h.message = Undef

\* a message of the shared state's type
isSetState(m) == m.t = "obj" /\ Get(m, K_type) = JStr(T_setState)

\* the broadcasts of a shared-state hook so far, posted or still queued,
\* in the order its effect made them; the first is the one of the mount
broadcasts(l) == SelectSeq(hooks[l].posted \o hooks[l].queue, isSetState)

\* C11: of two consecutive local mutations of a shared-state hook, the
\* second is stamped strictly later than the first.
C11_StampsIncrease ==
  \A l \in links :
    \A i \in 2..(Len(broadcasts(l)) - 1) :
      Get(broadcasts(l)[i], K_time).n < Get(broadcasts(l)[i + 1], K_time).n

\* C12: a message that cannot be serialized is refused by dispatch: it is
\* never in a queue.
C12_NotEnqueued ==
  \A l \in links :
    \A i \in 1..Len(hooks[l].queue) : hooks[l].queue[i] \notin Unserializable

C14_NoParticipation ==
  \A l \in links :
    isChild(l) /\ frames[FrameOf(l)].tag # "iframe"
      => hooks[l].posted = <<>> /\ ~hooks[l].thrown

\* C15: once the component of a hook is unmounted the hook has no listener,
\* and no later step calls its handler, changes its childId or posts an
\* entry of its queue.
C15_Detached ==
  [][\A l \in links :
       hooks[l].detached
         => /\ ~hooks'[l].listening
            /\ hooks'[l].handled = hooks[l].handled
            /\ hooks'[l].childId = hooks[l].childId
            /\ hooks'[l].posted = hooks[l].posted
            /\ hooks'[l].queue = hooks[l].queue]_vars

\* the parent was unmounted with an entry in its queue after the child's
\* mounted message had reached it, and the Ping the child posted next was
\* delivered to the parent's window without a call of the handler
C15_Witness ==
  /\ hooks["PA"].detached
  /\ hooks["PA"].childId # Undef
  /\ hooks["PA"].queue # <<>>
  /\ hooks["PA"].handled = <<>>
  /\ Len(hooks["CA"].posted) = 2
  /\ isPrivateMessage(hooks["CA"].posted[1])
  /\ hooks["CA"].posted[2] = Ping
  /\ inbox["top"] = <<>>

\* C16: a hook whose childId is defined (Established) has it defined in
\* every later state.
C16_OneWay ==
  [][\A l \in links :
       hooks[l].childId # Undef => hooks'[l].childId # Undef]_vars

\* the mounted messages child c has queued or posted
announcements(c) ==
  SelectSeq(hooks[c].posted \o hooks[c].queue, isPrivateMessage)

\* the packets of c still in the parent window's inbox are its last posts
inFlight(c, i) == i > Len(hooks[c].posted) - Len(inbox["top"])

\* c's mounted message was posted and processed, and left the parent Pending
Missed(c) ==
  /\ hooks[ParentOf(c)].childId = Undef
  /\ \E i \in 1..Len(hooks[c].posted) :
       isPrivateMessage(hooks[c].posted[i]) /\ ~inFlight(c, i)

\* C17: a child queues the mounted message once, when its mount effect
\* runs, and never again; once that message was processed by a parent that
\* stayed Pending, the parent stays Pending for ever and posts nothing.
C17_NoRetry ==
  [][\A c \in links :
       isChild(c)
         => /\ Len(announcements(c))' = (IF hooks'[c].childId = Undef THEN 0 ELSE 1)
            /\ Missed(c) => Missed(c)' /\ hooks'[ParentOf(c)].posted = <<>>]_vars

\* the child's mounted message was missed, and two messages of the parent's
\* caller stay in the queue with nothing left to run
C17_Witness ==
  /\ Missed("CA")
  /\ Len(hooks["PA"].queue) = 2
  /\ Quiescent

\* the entries of l's queue or post history that dispatch appended: all but
\* the mounted message of the mount effect
dispatched(l, q) ==
  SelectSeq(q, LAMBDA m : m # MountedMessage(JStr(IframeId(FrameOf(l)))))

\* one run of the queue effect of l in this step: the head is posted, and
\* what follows it stays at the front of the queue
drainsHead(l) ==
  /\ hooks[l].queue # <<>>
  /\ hooks'[l].posted = Append(hooks[l].posted, Head(hooks[l].queue))
  /\ Len(hooks'[l].queue) >= Len(hooks[l].queue) - 1
  /\ SubSeq(hooks'[l].queue, 1, Len(hooks[l].queue) - 1) = Tail(hooks[l].queue)

\* C18: in every state the messages a hook has posted, followed by its
\* queue, are the messages its caller submitted, in order; a step that posts
\* posts the head of the queue and removes it, and nothing else.
C18_Conservation ==
  /\ [](\A l \in links :
         dispatched(l, hooks[l].posted \o hooks[l].queue)
           = messagesOf(hooks[l].submitted))
  /\ [][\A l \in links :
          hooks'[l].posted # hooks[l].posted => drainsHead(l)]_vars

\* the parent has posted Ping and holds Pong, submitted after it, in its
\* queue while the next run of the queue effect is pending
C18_Witness ==
  /\ hooks["PA"].posted = <<Ping>>
  /\ hooks["PA"].queue = <<Pong>>
  /\ messagesOf(hooks["PA"].submitted) = <<Ping, Pong>>
  /\ hooks["PA"].effects

\* the message of the event at the head of window w
headMessage(w) == decodeMessage(Head(inbox[w]).data).message

\* the listener of l is registered at w and passes the message of the event
\* at the head of w, a set-state message, to the handler
receivesSetState(l, w) ==
  /\ inbox[w] # <<>>
  /\ hears(l, w)
  /\ \E d \in {decodeMessage(Head(inbox[w]).data)} :
       callsHandler(l, hooks[l], d) /\ isSetState(d.message)

\* C19: the step in which a shared-state hook's handler gets a set-state
\* message leaves the hook with the state and the time of that message as
\* remoteState and stateAge.remote, whatever stamps it held, and with its
\* internalState as it was; its stateAge.local and its queue are as they
\* were too, unless effects of its own were pending.
C19_StoresRemote ==
  [][\A l \in links :
       (Processes(WindowOf(l)) /\ receivesSetState(l, WindowOf(l)))
         => /\ hooks'[l].remoteState = Get(headMessage(WindowOf(l)), K_state)
            /\ hooks'[l].stateAge.remote = Get(headMessage(WindowOf(l)), K_time)
            /\ hooks'[l].internalState = hooks[l].internalState
            /\ ~hooks[l].effects
                 => /\ hooks'[l].stateAge.local = hooks[l].stateAge.local
                    /\ hooks'[l].queue = hooks[l].queue]_vars

\* a hook's handler got two set-state messages with the same time and
\* different states, and the hook holds the state of the second, with a
\* stamp that is not later than its local one
C19_Witness ==
  \E l \in links :
    /\ Len(hooks[l].handled) = 2
    /\ Get(hooks[l].handled[1].message, K_time)
         = Get(hooks[l].handled[2].message, K_time)
    /\ Get(hooks[l].handled[1].message, K_state)
         # Get(hooks[l].handled[2].message, K_state)
    /\ hooks[l].remoteState = Get(hooks[l].handled[2].message, K_state)
    /\ hooks[l].stateAge.remote.n <= hooks[l].stateAge.local.n

\* C20: no hook, parent or child, has ever called its handler with a
\* private message.
C20_PrivateNotHandled ==
  \A l \in links :
    \A i \in 1..Len(hooks[l].handled) :
      ~isPrivateMessage(hooks[l].handled[i].message)

\* the child's listener ran on a mounted message of another script, the
\* parent's listener ran on the child's mounted message and became
\* Established, and the parent's handler was called with a message of the
\* child's caller
C20_Witness ==
  /\ \E h \in hooks["CA"].heard :
       h.source = "ext" /\ isPrivateMessage(h.message)
  /\ hooks["PA"].childId # Undef
  /\ hooks["PA"].handled # <<>>

\* the event at the head of window w carries a message of a caller in a
\* packet without fromId
headIsAnonymous(w) ==
  /\ inbox[w] # <<>>
  /\ \E d \in {decodeMessage(Head(inbox[w]).data)} :
       hasMessage(d) /\ ~isPrivateMessage(d.message) /\ d.fromId = Undef

\* C21: the step that processes a packet without fromId at the parent's
\* window calls the handler of no parent hook.
C21_SenderKnown ==
  [][\A l \in ParentLinks \cap links :
       (Processes("top") /\ headIsAnonymous("top"))
         => hooks'[l].handled = hooks[l].handled]_vars

\* C22: a parent hook bound to an iframe element whose id is not empty
\* never throws.
C22_NamedNeverThrows ==
  \A l \in links :
    isParent(l) /\ IframeId(FrameOf(l)) # <<>> => ~hooks[l].thrown

\* C23: after a functional update, once the effects of the hook have run
\* and as long as its handler got no further message, the hook returns the
\* updater's result on the value it returned when the setter was called.
C23_UpdatesObserved ==
  \A l \in links :
    (/\ hooks[l].expected.value # Undef
     /\ hooks[l].expected.at = Len(hooks[l].handled)
     /\ ~hooks[l].effects)
      => hooks[l].state = hooks[l].expected.value

\* the caller of l has set a state; the initial state is not among States
hasMutated(l) == hooks[l].internalState # initialState

\* C24: when one side has set the state and the other never has, then with
\* both hooks Established, nothing left to run, no packet in flight and
\* both queues empty, both sides return the state that was set.
C24_MutationWins ==
  (/\ Quiescent
   /\ Established
   /\ \A l \in links : hooks[l].queue = <<>>)
    => \A l \in links :
         hasMutated(l) /\ ~hasMutated(PeerOf(l))
           => /\ hooks[l].state = hooks[l].internalState
              /\ hooks[PeerOf(l)].state = hooks[l].internalState

\* C25: a step in which a parent hook calls its handler starts in a state
\* where the hook's childId is defined (Established).
C25_HandlesEstablished ==
  [][\A l \in ParentLinks \cap links :
       hooks'[l].handled # hooks[l].handled => hooks[l].childId # Undef]_vars

====
